---------------------------- MODULE Spec2Model ----------------------------
(***************************************************************************)
(* Model of the ev3dev Speaker class of pybricks-micropython               *)
(* (src/bricks/ev3dev/pb_type_ev3dev_speaker.c).                           *)
(*                                                                         *)
(* The speaker is a process-wide singleton.  One Python caller invokes its *)
(* four methods one after the other; a method that suspends (a timed delay *)
(* or the event-poll loop of play_file/say) is split at its suspension     *)
(* points, where the environment may act: an interruption may become       *)
(* pending, a helper process may exit, the splice may complete.            *)
(***************************************************************************)
EXTENDS Integers, Sequences, FiniteSets, TLC

VARIABLES
    pc,             \* position of the caller: "idle", a suspension point, or an exit
    op,             \* the call in progress (or the last one), with its arguments
    err,            \* the exception the last call raised, NoErr if none
    pending,        \* MP_STATE_VM(mp_pending_exception): 0 or the id of an interruption
    nInt,           \* number of interruptions delivered so far
    \* ---- tone device and melody ----
    beep_fd,        \* self->beep_fd
    tone,           \* frequency the hardware is sounding (0: silent)
    log,            \* tone commands and delays of the call in progress
    duration,       \* play_notes: length of a whole note in ms
    idx,            \* play_notes: position of the iterator (next note, 1-based)
    cur,            \* play_note: the note being played, as parsed
    beep_ret,       \* what the last set_beep_frequency returned
    \* ---- play_file and say ----
    aplay_busy,     \* self->aplay_busy
    aplay_result,   \* self->aplay_result
    aplay_error,    \* self->aplay_error: "NULL" or the error of the wait
    espeak_busy,    \* self->espeak_busy
    espeak_result,  \* self->espeak_result
    espeak_error,   \* self->espeak_error
    splice_busy,    \* self->splice_busy
    splice_result,  \* self->splice_result
    splice_error,   \* self->splice_error
    exception,      \* the local flag of the wait loop
    nlr_ret_val,    \* nlr.ret_val: the exception caught last (0: none yet)
    proc,           \* the helper processes of the call
    splice,         \* the splice of espeak's stdout into aplay's stdin
    ready,          \* completed asynchronous operations whose callback has not run
    outstanding,    \* asynchronous operations started whose callback has not run
    unrefs,         \* g_object_unref calls on each process handle
    caught,         \* ids of the interruptions the wait loop caught, in order
    rd,             \* the read of a failed process's stderr, NoRead if none
    order,          \* the completions whose callbacks ran, poll by poll, in order
    writes,         \* how often the callbacks of the call wrote each result cell
    reads           \* the result cells the caller read after its wait loop

toneVars == <<beep_fd, tone, beep_ret, log, duration, idx, cur>>
callVars == <<pc, op, err, pending, nInt>>
speakerVars == <<aplay_busy, aplay_result, aplay_error, espeak_busy, espeak_result,
                 espeak_error, splice_busy, splice_result, splice_error>>
pipeVars == <<speakerVars, exception, nlr_ret_val, proc, splice, ready, outstanding,
              unrefs, caught, rd, order, writes, reads>>
vars == <<callVars, toneVars, pipeVars>>

NoErr == [kind |-> "none"]
NoOp == [name |-> "none"]
NoNote == [err |-> "unparsed"]

----------------------------------------------------------------------------
(* Bounds of the model *)

\* most notes in one play_notes call
MaxNotes == 2
\* most interruptions delivered in one behaviour
MaxInterrupts == 2
\* most EINTR results of write() before it succeeds or fails
MaxEintr == 1

----------------------------------------------------------------------------
(* C arithmetic *)

\* C integer division truncates toward zero
CDiv(a, b) ==
    IF (a >= 0) = (b > 0) THEN a \div b
    ELSE IF a >= 0 THEN -(a \div (-b))
    ELSE IF b > 0 THEN -((-a) \div b)
    ELSE (-a) \div (-b)

RECURSIVE Pow2(_)
Pow2(n) == IF n <= 0 THEN 1 ELSE 2 * Pow2(n - 1)

\* a << n for non-negative operands
Shl(a, n) == a * Pow2(n)

----------------------------------------------------------------------------
(* Character data: a note is a C string, modelled as a sequence of          *)
(* one-character strings; the terminating NUL is read at index Len.         *)

Ord(c) ==
    CASE c = "NUL" -> 0
      [] c = "#" -> 35
      [] c = "." -> 46
      [] c = "/" -> 47
      [] c = "0" -> 48
      [] c = "1" -> 49
      [] c = "2" -> 50
      [] c = "3" -> 51
      [] c = "4" -> 52
      [] c = "5" -> 53
      [] c = "6" -> 54
      [] c = "7" -> 55
      [] c = "8" -> 56
      [] c = "9" -> 57
      [] c = "A" -> 65
      [] c = "B" -> 66
      [] c = "C" -> 67
      [] c = "D" -> 68
      [] c = "E" -> 69
      [] c = "F" -> 70
      [] c = "G" -> 71
      [] c = "R" -> 82
      [] c = "_" -> 95
      [] c = "b" -> 98
      [] c = "x" -> 120

\* note[pos], pos counted from 0 as in C
CharAt(note, pos) ==
    IF pos < Len(note) THEN note[pos + 1]
    ELSE IF pos = Len(note) THEN "NUL"
    ELSE "OOB"

\* note[pos] - '0'
DigitAt(note, pos) == Ord(CharAt(note, pos)) - Ord("0")

----------------------------------------------------------------------------
(* ev3dev_Speaker_play_note, lines 119-279: the scan of one note token.     *)
(* Frequencies are kept in hundredths of a hertz, so that the doubles of    *)
(* the source (two decimals, scaled by a power of two) stay exact.          *)

\* PitchTable with another frequency for D flat
PitchTable_FlatD(letter) ==
    CASE letter = "C" -> [b |-> -1,   s |-> 1732, n |-> 1635]
      [] letter = "D" -> [b |-> 1735, s |-> 1945, n |-> 1835]
      [] letter = "E" -> [b |-> 1945, s |-> -1,   n |-> 2060]
      [] letter = "F" -> [b |-> -1,   s |-> 2312, n |-> 2183]
      [] letter = "G" -> [b |-> 2312, s |-> 2596, n |-> 2450]
      [] letter = "A" -> [b |-> 2596, s |-> 2914, n |-> 2750]
      [] letter = "B" -> [b |-> 2914, s |-> -1,   n |-> 3087]

\* the inner switch on the accidental: flat, sharp, natural; -1 marks the
\* spellings that raise
PitchTable(letter) ==
    CASE letter = "C" -> [b |-> -1,   s |-> 1732, n |-> 1635]
      [] letter = "D" -> [b |-> 1732, s |-> 1945, n |-> 1835]
      [] letter = "E" -> [b |-> 1945, s |-> -1,   n |-> 2060]
      [] letter = "F" -> [b |-> -1,   s |-> 2312, n |-> 2183]
      [] letter = "G" -> [b |-> 2312, s |-> 2596, n |-> 2450]
      [] letter = "A" -> [b |-> 2596, s |-> 2914, n |-> 2750]
      [] letter = "B" -> [b |-> 2914, s |-> -1,   n |-> 3087]

Letters == {"A", "B", "C", "D", "E", "F", "G"}

\* lines 125-230: [err, freq (1/100 Hz), pos]
ParsePitch(note) ==
    LET c0 == CharAt(note, 0)
        c1 == CharAt(note, 1)
    IN  IF c0 \in Letters THEN
            LET t == PitchTable(c0)
            IN  IF c1 = "b" THEN
                    IF t.b < 0
                    THEN [err |-> "'" \o c0 \o "b' is not allowed", freq |-> 0, pos |-> 2]
                    ELSE [err |-> "", freq |-> t.b, pos |-> 2]
                ELSE IF c1 = "#" THEN
                    IF t.s < 0
                    THEN [err |-> "'" \o c0 \o "#' is not allowed", freq |-> 0, pos |-> 2]
                    ELSE [err |-> "", freq |-> t.s, pos |-> 2]
                ELSE [err |-> "", freq |-> t.n, pos |-> 1]
        ELSE IF c0 = "R" THEN [err |-> "", freq |-> 0, pos |-> 1]
        ELSE [err |-> "Missing note name A-G or R", freq |-> 0, pos |-> 1]

\* lines 232-239: the octave, read only when the note is not a rest
ParseOctave(note, p) ==
    IF p.freq = 0 THEN p
    ELSE LET octave == DigitAt(note, p.pos)
         IN  IF octave < 2 \/ octave > 8
             THEN [err |-> "Missing octave number 2-8", freq |-> p.freq, pos |-> p.pos + 1]
             ELSE [err |-> "", freq |-> p.freq * Shl(2, octave), pos |-> p.pos + 1]

\* lines 246-259: one or two fraction digits; [err, fraction, pos]
ParseFraction(note, pos) ==
    LET fraction == DigitAt(note, pos)
        fraction2 == DigitAt(note, pos + 1)
    IN  IF fraction < 0 \/ fraction > 9
        THEN [err |-> "Missing fractional value 1, 2, 4, 8, etc.", fraction |-> fraction, pos |-> pos + 1]
        ELSE IF fraction2 < 0 \/ fraction2 > 9
        THEN [err |-> "", fraction |-> fraction, pos |-> pos + 1]
        ELSE [err |-> "", fraction |-> fraction * 10 + fraction2, pos |-> pos + 2]

\* line 267: a dotted note is half as long again
Dotted(d) == CDiv(3 * d, 2)

\* ParseDecorations with the '_' consumed but release left true
ParseDecorations_AlwaysRelease(note, pos, d) ==
    LET dot == CharAt(note, pos) = "."
        pos1 == IF dot THEN pos + 1 ELSE pos
        tie == CharAt(note, pos1) = "_"
    IN  [duration |-> IF dot THEN Dotted(d) ELSE d,
         release |-> TRUE,
         pos |-> IF tie THEN pos1 + 1 ELSE pos1]

\* lines 263-279: the optional '.' and '_' after the fraction
ParseDecorations(note, pos, d) ==
    LET dot == CharAt(note, pos) = "."
        pos1 == IF dot THEN pos + 1 ELSE pos
        tie == CharAt(note, pos1) = "_"
    IN  [duration |-> IF dot THEN Dotted(d) ELSE d,
         release |-> ~tie,
         pos |-> IF tie THEN pos1 + 1 ELSE pos1]

Failed(msg) ==
    [err |-> msg, freq |-> 0, duration |-> 0, release |-> TRUE, fraction |-> 0, pos |-> 0]

\* The scan as a whole.  whole is the length of a whole note; divzero is what
\* the build yields for an integer division by zero: a trap or a quotient.
\* err is "" for a note that is played, "SIGFPE" for a trap, else the message
\* of the ValueError.  freq is (int)freq, the value handed to the tone device.
ParseNote(note, whole, divzero) ==
    LET p == ParsePitch(note)
        o == ParseOctave(note, p)
        f == ParseFraction(note, o.pos + 1)
    IN  IF p.err # "" THEN Failed(p.err)
        ELSE IF o.err # "" THEN Failed(o.err)
        ELSE IF CharAt(note, o.pos) # "/" THEN Failed("Missing '/'")
        ELSE IF f.err # "" THEN Failed(f.err)
        ELSE IF f.fraction = 0 /\ divzero.trap THEN Failed("SIGFPE")
        ELSE LET d == IF f.fraction = 0 THEN divzero.q ELSE CDiv(whole, f.fraction)
                 dec == ParseDecorations(note, f.pos, d)
             IN  [err |-> "", freq |-> CDiv(o.freq, 100), duration |-> dec.duration,
                  release |-> dec.release, fraction |-> f.fraction, pos |-> dec.pos]

\* HoldMs with 3/4 of the note in place of 7/8
HoldMs_ThreeQuarters(release, d) == IF release THEN CDiv(6 * d, 8) ELSE d

\* lines 286-293: how long the tone is held, and the release gap after it
HoldMs(release, d) == IF release THEN CDiv(7 * d, 8) ELSE d
GapMs(d) == CDiv(d, 8)

----------------------------------------------------------------------------
(* Inputs *)

\* results of the successive write() calls of one set_beep_frequency: some
\* EINTR, then success or a real failure
EintrRuns == { [i \in 1..n |-> "EINTR"] : n \in 0..MaxEintr }
WriteOutcomes == { Append(r, fin) : r \in EintrRuns, fin \in {"OK", "EIO"} }

\* what an integer division by zero (undefined behaviour) can yield: the
\* process is killed by SIGFPE, or the division yields a quotient of 0
DivZeroOutcomes == { [trap |-> TRUE, q |-> 0], [trap |-> FALSE, q |-> 0] }

BeepFrequencies == {0, 500}
BeepDurations == {-1, 0, 100}
Tempos == {60, 120}

\* "C4/4" and the like
Tokens ==
    { <<"C", "4", "/", "4">>,
      <<"C", "4", "/", "4", "_">>,
      <<"C", "4", "/", "4", ".">>,
      <<"R", "/", "4">>,
      <<"C", "b", "4", "/", "4">>,
      <<"C", "4", "/", "0">> }

RECURSIVE SeqsUpTo(_, _)
SeqsUpTo(S, n) ==
    IF n = 0 THEN { <<>> }
    ELSE LET shorter == SeqsUpTo(S, n - 1)
         IN  shorter \cup { Append(q, x) : q \in shorter, x \in S }

Melodies == SeqsUpTo(Tokens, MaxNotes)

\* The strings handed to play_note one at a time: every spelling of a pitch,
\* every octave digit around [2,8], fractions of one and two digits with and
\* without a leading '0', and what may follow the fraction
NoteSpellings ==
    { <<l>> \o a : l \in Letters, a \in { <<>>, <<"b">>, <<"#">> } }
NoteOctaves ==
    { <<"1">>, <<"2">>, <<"3">>, <<"4">>, <<"5">>, <<"6">>, <<"7">>, <<"8">>, <<"9">> }
NoteFractions ==
    { <<"0">>, <<"1">>, <<"4">>, <<"0", "5">>, <<"1", "6">> }
NoteTails ==
    { <<>>, <<".">>, <<"_">>, <<".", "_">>, <<"_", ".">>, <<"x">> }
NoteTokens ==
    { s \o o \o <<"/", "4">> : s \in NoteSpellings, o \in NoteOctaves }
    \cup { s \o <<"4", "/">> \o f : s \in NoteSpellings, f \in NoteFractions }
    \cup { <<"C", "4", "/">> \o f \o t : f \in NoteFractions, t \in NoteTails }
    \cup { <<"R", "/">> \o f \o t : f \in NoteFractions, t \in NoteTails }
    \cup { <<"C", "4", "/", "4", "C", "4", "/", "4">>,
           <<"x", "4", "/", "4">>,
           <<"C", "4", "4">>,
           <<"C", "4", "/">>,
           <<>> }

\* writes to a tone device that works: some EINTR, then success
OkWriteOutcomes == { r \in WriteOutcomes : r[Len(r)] = "OK" }

----------------------------------------------------------------------------
(* The tone device *)

\* struct input_event on the 32-bit target: what a successful write returns
SizeofInputEvent == 16

\* lines 77-79: write() until it does not fail with EINTR; the result of the
\* last write.  A descriptor of -1 fails every write with EBADF.
RECURSIVE WriteLoop(_, _, _)
WriteLoop(fd, outs, i) ==
    IF fd = -1 THEN "EBADF"
    ELSE IF outs[i] = "EINTR" /\ i < Len(outs) THEN WriteLoop(fd, outs, i + 1)
    ELSE outs[i]

\* set_beep_frequency, lines 69-82: its return value
set_beep_frequency(fd, freq, outs) ==
    IF WriteLoop(fd, outs, 1) = "OK" THEN SizeofInputEvent ELSE -1

\* the tone the hardware sounds after the command
ToneAfter(fd, freq, outs) ==
    IF set_beep_frequency(fd, freq, outs) = -1 THEN tone ELSE freq

Tone(f, n) == [k |-> "tone", v |-> f, n |-> n]
Delay(ms, n) == [k |-> "delay", v |-> ms, n |-> n]

Aborted(ms, n) == [k |-> "aborted", v |-> ms, n |-> n]

\* a call can be made when none is in progress
Callable == pc = "idle"

\* the call has returned to its caller, or unwound to it with an exception
Exited == pc \in {"returned", "raised"}

\* the pending exception, raised at a suspension point (mp_handle_pending)
Interrupted == [kind |-> "Interrupted", id |-> pending]

----------------------------------------------------------------------------
(* Environment: an interruption (KeyboardInterrupt) becomes pending.  A     *)
(* later one replaces one that was not raised yet.                          *)

Interrupt ==
    /\ pc # "crashed"
    /\ nInt < MaxInterrupts
    /\ nInt' = nInt + 1
    /\ pending' = nInt + 1
    /\ UNCHANGED <<pc, op, err, toneVars, pipeVars>>

----------------------------------------------------------------------------
(* ev3dev_Speaker_beep, lines 84-115 *)

\* a call of set_beep_frequency(self, f) made for note n (0: not for a note),
\* after the events l of the call so far
Command(l, f, n, outs) ==
    /\ log' = Append(l, Tone(f, n))
    /\ tone' = ToneAfter(beep_fd, f, outs)
    /\ beep_ret' = set_beep_frequency(beep_fd, f, outs)

\* lines 91-101: the tone-on write, up to the timed wait
ev3dev_Speaker_beep(frequency, ms, outs) ==
    /\ Callable
    /\ op' = [name |-> "beep", frequency |-> frequency, duration |-> ms]
    /\ Command(<<>>, frequency, 0, outs)
    /\ IF beep_ret' = -1
       THEN /\ pc' = "raised"
            /\ err' = [kind |-> "OSError", errno |-> WriteLoop(beep_fd, outs, 1)]
       ELSE /\ pc' = IF ms < 0 THEN "returned" ELSE "beep_delay"
            /\ err' = NoErr
    /\ UNCHANGED <<pending, nInt, beep_fd, duration, idx, cur, pipeVars>>

\* lines 104-107: mp_hal_delay_ms returned; silence, return
beep_delay_done(outs) ==
    /\ pc = "beep_delay"
    /\ Command(Append(log, Delay(op.duration, 0)), 0, 0, outs)
    /\ pc' = "returned"
    /\ UNCHANGED <<op, err, pending, nInt, beep_fd, duration, idx, cur, pipeVars>>

\* beep_unwind with line 110 left out
beep_unwind_NoSilence(l, outs) ==
    /\ log' = l
    /\ UNCHANGED <<tone, beep_ret>>

\* lines 109-112: the exception is caught, the tone silenced, the exception
\* raised again
beep_unwind(l, outs) == Command(l, 0, 0, outs)

\* mp_hal_delay_ms raised the pending exception
beep_delay_raise(outs) ==
    /\ pc = "beep_delay"
    /\ pending # 0
    /\ beep_unwind(Append(log, Aborted(op.duration, 0)), outs)
    /\ pc' = "raised"
    /\ err' = Interrupted
    /\ pending' = 0
    /\ UNCHANGED <<op, nInt, beep_fd, duration, idx, cur, pipeVars>>

----------------------------------------------------------------------------
(* ev3dev_Speaker_play_notes, lines 296-324, and ev3dev_Speaker_play_note,  *)
(* lines 118-294                                                            *)

\* line 304
WholeNoteMs(tempo) == CDiv(4 * 60 * 1000, tempo)

\* lines 303-309: up to the first mp_iternext
ev3dev_Speaker_play_notes(notes, tempo) ==
    /\ Callable
    /\ op' = [name |-> "play_notes", notes |-> notes, tempo |-> tempo]
    /\ duration' = WholeNoteMs(tempo)
    /\ idx' = 1
    /\ cur' = NoNote
    /\ log' = <<>>
    /\ err' = NoErr
    /\ pc' = "notes_next"
    /\ UNCHANGED <<pending, nInt, beep_fd, tone, beep_ret, pipeVars>>

\* lines 313-315: the iterator is exhausted
play_notes_end(l, outs) == Command(l, 0, 0, outs)

\* play_notes_unwind with line 319 left out
play_notes_unwind_NoSilence(l, outs) ==
    /\ log' = l
    /\ UNCHANGED <<tone, beep_ret>>

\* lines 317-321: an exception unwinds to the nlr_push of play_notes
play_notes_unwind(l, outs) == Command(l, 0, 0, outs)

\* lines 310-316 with 119-281: the next item of the iterator.  At the end of
\* the sequence the tone is silenced and play_notes returns; else the note is
\* scanned: a ValueError unwinds to line 319, a played note commands its tone
\* and starts its first wait.
play_notes_next(outs, divzero) ==
    /\ pc = "notes_next"
    /\ IF idx > Len(op.notes)
       THEN /\ play_notes_end(log, outs)
            /\ pc' = "returned"
            /\ UNCHANGED <<err, cur>>
       ELSE LET p == ParseNote(op.notes[idx], duration, divzero)
            IN  /\ cur' = p
                /\ IF p.err = "SIGFPE"
                   THEN /\ pc' = "crashed"
                        /\ UNCHANGED <<log, tone, beep_ret, err>>
                   ELSE IF p.err # ""
                   THEN /\ play_notes_unwind(log, outs)
                        /\ pc' = "raised"
                        /\ err' = [kind |-> "ValueError", msg |-> p.err]
                   ELSE /\ Command(log, p.freq, idx, outs)
                        /\ pc' = "note_hold"
                        /\ UNCHANGED err
    /\ UNCHANGED <<op, pending, nInt, beep_fd, duration, idx, pipeVars>>

\* lines 286-293: the first wait of the note is over
play_note_hold_done(outs) ==
    /\ pc = "note_hold"
    /\ IF cur.release
       THEN /\ Command(Append(log, Delay(HoldMs(TRUE, cur.duration), idx)), 0, idx, outs)
            /\ pc' = "note_gap"
            /\ UNCHANGED idx
       ELSE /\ log' = Append(log, Delay(HoldMs(FALSE, cur.duration), idx))
            /\ pc' = "notes_next"
            /\ idx' = idx + 1
            /\ UNCHANGED <<tone, beep_ret>>
    /\ UNCHANGED <<op, err, pending, nInt, beep_fd, duration, cur, pipeVars>>

\* line 289: the release gap is over
play_note_gap_done ==
    /\ pc = "note_gap"
    /\ log' = Append(log, Delay(GapMs(cur.duration), idx))
    /\ pc' = "notes_next"
    /\ idx' = idx + 1
    /\ UNCHANGED <<op, err, pending, nInt, beep_fd, tone, beep_ret, duration, cur, pipeVars>>

\* a wait of the note raised the pending exception
play_note_delay_raise(outs) ==
    /\ pc \in {"note_hold", "note_gap"}
    /\ pending # 0
    /\ play_notes_unwind(
         Append(log, Aborted(IF pc = "note_hold" THEN HoldMs(cur.release, cur.duration)
                             ELSE GapMs(cur.duration), idx)),
         outs)
    /\ pc' = "raised"
    /\ err' = Interrupted
    /\ pending' = 0
    /\ UNCHANGED <<op, nInt, beep_fd, duration, idx, cur, pipeVars>>

----------------------------------------------------------------------------
(* play_file and say: the helper processes and their completions *)

Procs == {"espeak", "aplay"}
Asyncs == {"espeak", "aplay", "splice"}

NoProc == [st |-> "none", ok |-> FALSE, killed |-> FALSE]
NoSplice == [st |-> "none", res |-> 0]
NoRead == [p |-> "none", n |-> 0, ok |-> FALSE, nul |-> -1]
NoWrites == [c \in Asyncs |-> 0]
NoReads == [c \in {} |-> NoRead]

\* gchar stderr_bytes[4096]
StderrBufSize == 4096

\* how much a failed process wrote to its stderr
StderrLens == {0, 1, StderrBufSize - 1, StderrBufSize, StderrBufSize + 1}

\* what the write of the NUL past the end of stderr_bytes (undefined
\* behaviour) can lead to: nothing visible, a message that is not the text
\* read, or the death of the process
OverflowOutcomes == {"benign", "garbled", "crash"}

\* bytes copied by a splice that succeeded, -1 for one that failed
SpliceResults == {-1, 1}

Min(a, b) == IF a < b THEN a ELSE b

\* the static singleton is zero-initialised
InitPipeVars ==
    /\ aplay_busy = FALSE
    /\ aplay_result = FALSE
    /\ aplay_error = "NULL"
    /\ espeak_busy = FALSE
    /\ espeak_result = FALSE
    /\ espeak_error = "NULL"
    /\ splice_busy = FALSE
    /\ splice_result = 0
    /\ splice_error = "NULL"
    /\ exception = FALSE
    /\ nlr_ret_val = 0
    /\ proc = [p \in Procs |-> NoProc]
    /\ splice = NoSplice
    /\ ready = {}
    /\ outstanding = {}
    /\ unrefs = [p \in Procs |-> 0]
    /\ caught = <<>>
    /\ rd = NoRead
    /\ order = <<>>
    /\ writes = NoWrites
    /\ reads = NoReads

InWait == pc \in {"play_file_wait", "say_wait"}

\* Environment: a helper process exits; its wait completes
ProcExit(p, ok) ==
    /\ InWait
    /\ proc[p].st = "running"
    /\ proc' = [proc EXCEPT ![p].st = "exited", ![p].ok = ok]
    /\ ready' = ready \cup {p}
    /\ UNCHANGED <<callVars, toneVars, speakerVars, exception, nlr_ret_val, splice,
                   outstanding, unrefs, caught, rd, order, writes, reads>>

\* Environment: the splice ends, at end of input or on an error
SpliceDone(res) ==
    /\ InWait
    /\ splice.st = "active"
    /\ splice' = [st |-> "done", res |-> res]
    /\ ready' = ready \cup {"splice"}
    /\ UNCHANGED <<callVars, toneVars, speakerVars, exception, nlr_ret_val, proc,
                   outstanding, unrefs, caught, rd, order, writes, reads>>

\* g_subprocess_new
Spawn(pr, p) == [pr EXCEPT ![p] = [st |-> "running", ok |-> FALSE, killed |-> FALSE]]

\* g_subprocess_force_exit
force_exit(pr, p) == [pr EXCEPT ![p].killed = TRUE]

\* g_object_unref of the handles in hs
Unref(hs) == [p \in Procs |-> IF p \in hs THEN unrefs[p] + 1 ELSE unrefs[p]]

\* ev3dev_Speaker_aplay_callback, lines 327-333, run when D holds its wait
ev3dev_Speaker_aplay_callback(D) ==
    IF "aplay" \in D
    THEN /\ aplay_error' = IF proc["aplay"].ok THEN "NULL" ELSE "wait-error"
         /\ aplay_result' = proc["aplay"].ok
         /\ aplay_busy' = FALSE
    ELSE UNCHANGED <<aplay_busy, aplay_result, aplay_error>>

\* ev3dev_Speaker_espeak_callback, lines 409-415
ev3dev_Speaker_espeak_callback(D) ==
    IF "espeak" \in D
    THEN /\ espeak_error' = IF proc["espeak"].ok THEN "NULL" ELSE "wait-error"
         /\ espeak_result' = proc["espeak"].ok
         /\ espeak_busy' = FALSE
    ELSE UNCHANGED <<espeak_busy, espeak_result, espeak_error>>

\* ev3dev_Speaker_splice_callback, lines 417-423
ev3dev_Speaker_splice_callback(D) ==
    IF "splice" \in D
    THEN /\ splice_error' = IF splice.res < 0 THEN "splice-error" ELSE "NULL"
         /\ splice_result' = splice.res
         /\ splice_busy' = FALSE
    ELSE UNCHANGED <<splice_busy, splice_result, splice_error>>

\* MICROPY_EVENT_POLL_HOOK when no exception is pending: one iteration of
\* the main loop runs the callbacks of the completions in D
PollDispatch(D) ==
    /\ D \subseteq ready
    /\ ready' = ready \ D
    /\ outstanding' = outstanding \ D
    /\ ev3dev_Speaker_aplay_callback(D)
    /\ ev3dev_Speaker_espeak_callback(D)
    /\ ev3dev_Speaker_splice_callback(D)
    /\ order' = IF D = {} THEN order ELSE Append(order, D)
    /\ writes' = [c \in Asyncs |-> IF c \in D THEN writes[c] + 1 ELSE writes[c]]
    /\ UNCHANGED <<pending, exception, nlr_ret_val, proc, caught>>

\* PollCatch with line 373/483 (exception = TRUE) left out
PollCatch_NoFlag(ps) ==
    /\ proc' = [p \in Procs |-> IF p \in ps THEN force_exit(proc, p)[p] ELSE proc[p]]
    /\ exception' = exception
    /\ nlr_ret_val' = pending
    /\ caught' = Append(caught, pending)
    /\ pending' = 0
    /\ UNCHANGED <<speakerVars, ready, outstanding, order, writes>>

\* PollCatch with line 481 (the force_exit of espeak) left out
PollCatch_AplayOnly(ps) ==
    /\ proc' = [p \in Procs |-> IF p \in ps \cap {"aplay"} THEN force_exit(proc, p)[p]
                                ELSE proc[p]]
    /\ exception' = TRUE
    /\ nlr_ret_val' = pending
    /\ caught' = Append(caught, pending)
    /\ pending' = 0
    /\ UNCHANGED <<speakerVars, ready, outstanding, order, writes>>

\* MICROPY_EVENT_POLL_HOOK raised the pending exception into the nlr_push of
\* the loop: the else branch, which kills the processes in ps
PollCatch(ps) ==
    /\ proc' = [p \in Procs |-> IF p \in ps THEN force_exit(proc, p)[p] ELSE proc[p]]
    /\ exception' = TRUE
    /\ nlr_ret_val' = pending
    /\ caught' = Append(caught, pending)
    /\ pending' = 0
    /\ UNCHANGED <<speakerVars, ready, outstanding, order, writes>>

\* lines 383-395, 494-506, 516-528: the message of a failed process.  n is
\* what the process wrote to stderr, readOk whether g_input_stream_read_all
\* succeeded.  The NUL is written at index bytes_read.
BytesRead(n) == Min(n, StderrBufSize)
NulIndex(n, readOk) == IF readOk /\ BytesRead(n) > 0 THEN BytesRead(n) ELSE -1
Overflows(n, readOk) == NulIndex(n, readOk) > StderrBufSize - 1
ErrMsg(n, readOk, ub) ==
    IF Overflows(n, readOk) /\ ub = "garbled" THEN [src |-> "garbage", len |-> 0]
    ELSE IF readOk /\ BytesRead(n) > 0 THEN [src |-> "stderr", len |-> BytesRead(n)]
    ELSE [src |-> "wait-error", len |-> 0]

\* lines 382-401, 493-513, 515-535: the failure of process p is raised
RaiseFailed(msg, p, hs, n, readOk, ub) ==
    /\ rd' = [p |-> p, n |-> n, ok |-> readOk, nul |-> NulIndex(n, readOk)]
    /\ IF Overflows(n, readOk) /\ ub = "crash"
       THEN /\ pc' = "crashed"
            /\ UNCHANGED <<err, unrefs>>
       ELSE /\ pc' = "raised"
            /\ err' = [kind |-> "RuntimeError", msg |-> msg, proc |-> p,
                       diag |-> ErrMsg(n, readOk, ub)]
            /\ unrefs' = Unref(hs)

\* RaiseCaught with the g_object_unref calls of lines 378, 488-489 left out
RaiseCaught_NoUnref(hs) ==
    /\ UNCHANGED unrefs
    /\ pc' = "raised"
    /\ err' = [kind |-> "Interrupted", id |-> nlr_ret_val']
    /\ UNCHANGED rd

\* lines 377-380, 487-491: the exception caught in the loop is raised again
RaiseCaught(hs) ==
    /\ unrefs' = Unref(hs)
    /\ pc' = "raised"
    /\ err' = [kind |-> "Interrupted", id |-> nlr_ret_val']
    /\ UNCHANGED rd

ReturnNone(hs) ==
    /\ unrefs' = Unref(hs)
    /\ pc' = "returned"
    /\ UNCHANGED <<err, rd>>

----------------------------------------------------------------------------
(* ev3dev_Speaker_play_file, lines 335-406 *)

\* lines 346-359: spawn aplay and start the wait for its exit
ev3dev_Speaker_play_file(spawned) ==
    /\ Callable
    /\ op' = [name |-> "play_file"]
    /\ exception' = FALSE
    /\ IF ~spawned
       THEN /\ pc' = "raised"
            /\ err' = [kind |-> "RuntimeError", msg |-> "Failed to spawn aplay",
                       proc |-> "aplay", diag |-> [src |-> "spawn-error", len |-> 0]]
            /\ UNCHANGED <<proc, aplay_busy, outstanding>>
       ELSE /\ proc' = Spawn(proc, "aplay")
            /\ aplay_busy' = TRUE
            /\ outstanding' = {"aplay"}
            /\ pc' = "play_file_wait"
            /\ err' = NoErr
    /\ order' = <<>>
    /\ writes' = NoWrites
    /\ reads' = NoReads
    /\ UNCHANGED <<pending, nInt, toneVars, aplay_result, aplay_error, espeak_busy,
                   espeak_result, espeak_error, splice_busy, splice_result,
                   splice_error, nlr_ret_val, splice, ready, unrefs, caught, rd>>

\* what the caller sees when it reads the result cells in cells: the busy
\* flag and the value of each, and how often its callback has written it
ReadCells(cells) ==
    [c \in cells |->
        IF c = "aplay"
        THEN [busy |-> aplay_busy', value |-> aplay_result', written |-> writes'[c]]
        ELSE [busy |-> espeak_busy', value |-> espeak_result', written |-> writes'[c]]]

\* play_file_busy with the loop left after its first turn
play_file_busy_Once == FALSE

\* the condition of the loop, line 375
play_file_busy == aplay_busy'

\* lines 367-405: one turn of the wait loop and, when the loop ends, the
\* rest of the function
play_file_poll(D, n, readOk, ub) ==
    /\ pc = "play_file_wait"
    /\ IF pending # 0 THEN PollCatch({"aplay"}) ELSE PollDispatch(D)
    /\ IF play_file_busy
       THEN UNCHANGED <<pc, err, unrefs, rd>>
       ELSE IF exception' THEN RaiseCaught({"aplay"})
       ELSE IF ~aplay_result'
       THEN RaiseFailed("Playing file failed", "aplay", {"aplay"}, n, readOk, ub)
       ELSE ReturnNone({"aplay"})
    /\ reads' = IF play_file_busy \/ exception' THEN reads ELSE ReadCells({"aplay"})
    /\ UNCHANGED <<op, nInt, toneVars, splice>>

----------------------------------------------------------------------------
(* ev3dev_Speaker_say, lines 425-541 *)

\* lines 436-468: spawn espeak and aplay, start the two waits and the splice
ev3dev_Speaker_say(espeakSpawned, aplaySpawned) ==
    /\ Callable
    /\ op' = [name |-> "say"]
    /\ exception' = FALSE
    /\ IF ~espeakSpawned
       THEN /\ pc' = "raised"
            /\ err' = [kind |-> "RuntimeError", msg |-> "Failed to spawn espeak",
                       proc |-> "espeak", diag |-> [src |-> "spawn-error", len |-> 0]]
            /\ UNCHANGED <<proc, unrefs, espeak_busy, aplay_busy, splice_busy,
                           splice, outstanding>>
       ELSE IF ~aplaySpawned
       THEN /\ proc' = Spawn(proc, "espeak")
            /\ unrefs' = Unref({"espeak"})
            /\ pc' = "raised"
            /\ err' = [kind |-> "RuntimeError", msg |-> "Failed to spawn aplay",
                       proc |-> "aplay", diag |-> [src |-> "spawn-error", len |-> 0]]
            /\ UNCHANGED <<espeak_busy, aplay_busy, splice_busy, splice, outstanding>>
       ELSE /\ proc' = Spawn(Spawn(proc, "espeak"), "aplay")
            /\ espeak_busy' = TRUE
            /\ aplay_busy' = TRUE
            /\ splice_busy' = TRUE
            /\ splice' = [st |-> "active", res |-> 0]
            /\ outstanding' = Asyncs
            /\ pc' = "say_wait"
            /\ err' = NoErr
            /\ UNCHANGED unrefs
    /\ order' = <<>>
    /\ writes' = NoWrites
    /\ reads' = NoReads
    /\ UNCHANGED <<pending, nInt, toneVars, aplay_result, aplay_error, espeak_result,
                   espeak_error, splice_result, splice_error, nlr_ret_val, ready,
                   caught, rd>>

\* say_busy without the splice
say_busy_NoSplice == espeak_busy' \/ aplay_busy'

\* say_busy without espeak
say_busy_NoEspeak == aplay_busy' \/ splice_busy'

\* the condition of the loop, line 485
say_busy == espeak_busy' \/ aplay_busy' \/ splice_busy'

\* FailedProcess with the two checks in the other order
FailedProcess_EspeakFirst ==
    IF ~espeak_result' THEN "espeak"
    ELSE IF ~aplay_result' THEN "aplay"
    ELSE "none"

\* lines 493-535: aplay's outcome is looked at first, then espeak's
FailedProcess ==
    IF ~aplay_result' THEN "aplay"
    ELSE IF ~espeak_result' THEN "espeak"
    ELSE "none"

\* lines 476-540: one turn of the wait loop and, when the loop ends, the
\* rest of the function
say_poll(D, n, readOk, ub) ==
    /\ pc = "say_wait"
    /\ IF pending # 0 THEN PollCatch({"espeak", "aplay"}) ELSE PollDispatch(D)
    /\ IF say_busy
       THEN UNCHANGED <<pc, err, unrefs, rd>>
       ELSE IF exception' THEN RaiseCaught(Procs)
       ELSE IF FailedProcess # "none"
       THEN RaiseFailed("Saying text failed", FailedProcess, Procs, n, readOk, ub)
       ELSE ReturnNone(Procs)
    /\ reads' = IF say_busy \/ exception' THEN reads
                ELSE IF aplay_result' THEN ReadCells({"aplay", "espeak"})
                ELSE ReadCells({"aplay"})
    /\ UNCHANGED <<op, nInt, toneVars, splice>>

\* the caller goes on after play_file or say
PipeCallExit ==
    /\ Exited
    /\ pc' = "idle"
    /\ op' = NoOp
    /\ err' = NoErr
    /\ exception' = FALSE
    /\ nlr_ret_val' = 0
    /\ proc' = [p \in Procs |-> NoProc]
    /\ splice' = NoSplice
    /\ ready' = {}
    /\ outstanding' = {}
    /\ unrefs' = [p \in Procs |-> 0]
    /\ caught' = <<>>
    /\ rd' = NoRead
    /\ order' = <<>>
    /\ writes' = NoWrites
    /\ reads' = NoReads
    /\ UNCHANGED <<pending, nInt, toneVars, speakerVars>>

----------------------------------------------------------------------------
(* The caller goes on after a call: the frame of the call is gone, the     *)
(* speaker and the tone device stay as the call left them.                 *)

ToneCallExit ==
    /\ Exited
    /\ pc' = "idle"
    /\ op' = NoOp
    /\ err' = NoErr
    /\ log' = <<>>
    /\ duration' = 0
    /\ idx' = 0
    /\ cur' = NoNote
    /\ UNCHANGED <<pending, nInt, beep_fd, tone, beep_ret, pipeVars>>

----------------------------------------------------------------------------
(* The tone operations: beep and play_notes on the constructed speaker *)

\* ev3dev_Speaker_make_new, lines 56-67: open() gave a descriptor or -1
InitTone ==
    /\ pc = "idle"
    /\ op = NoOp
    /\ err = NoErr
    /\ pending = 0
    /\ nInt = 0
    /\ beep_fd \in {-1, 3}
    /\ tone = 0
    /\ beep_ret = 0
    /\ log = <<>>
    /\ duration = 0
    /\ idx = 0
    /\ cur = NoNote
    /\ InitPipeVars

NextTone ==
    \/ Interrupt
    \/ \E f \in BeepFrequencies, ms \in BeepDurations, outs \in WriteOutcomes :
          ev3dev_Speaker_beep(f, ms, outs)
    \/ \E outs \in WriteOutcomes : beep_delay_done(outs)
    \/ \E outs \in WriteOutcomes : beep_delay_raise(outs)
    \/ \E notes \in Melodies, tempo \in Tempos : ev3dev_Speaker_play_notes(notes, tempo)
    \/ \E outs \in WriteOutcomes, dz \in DivZeroOutcomes : play_notes_next(outs, dz)
    \/ \E outs \in WriteOutcomes : play_note_hold_done(outs)
    \/ play_note_gap_done
    \/ \E outs \in WriteOutcomes : play_note_delay_raise(outs)
    \/ ToneCallExit

SpecTone == InitTone /\ [][NextTone]_vars

----------------------------------------------------------------------------
(* One note at a time: play_notes on a one-element sequence, so that        *)
(* ev3dev_Speaker_play_note is run on each string of NoteTokens.  The tone  *)
(* device is open and accepts every write, and no interruption arrives.     *)

InitNote ==
    /\ pc = "idle"
    /\ op = NoOp
    /\ err = NoErr
    /\ pending = 0
    /\ nInt = 0
    /\ beep_fd = 3
    /\ tone = 0
    /\ beep_ret = 0
    /\ log = <<>>
    /\ duration = 0
    /\ idx = 0
    /\ cur = NoNote
    /\ InitPipeVars

NextNote ==
    \/ \E t \in NoteTokens, tempo \in Tempos : ev3dev_Speaker_play_notes(<<t>>, tempo)
    \/ \E outs \in OkWriteOutcomes, dz \in DivZeroOutcomes : play_notes_next(outs, dz)
    \/ \E outs \in OkWriteOutcomes : play_note_hold_done(outs)
    \/ play_note_gap_done
    \/ ToneCallExit

SpecNote == InitNote /\ [][NextNote]_vars

----------------------------------------------------------------------------
(* The process pipeline: play_file and say on the constructed speaker *)

InitPipe ==
    /\ pc = "idle"
    /\ op = NoOp
    /\ err = NoErr
    /\ pending = 0
    /\ nInt = 0
    /\ beep_fd \in {-1, 3}
    /\ tone = 0
    /\ beep_ret = 0
    /\ log = <<>>
    /\ duration = 0
    /\ idx = 0
    /\ cur = NoNote
    /\ InitPipeVars

NextPipe ==
    \/ Interrupt
    \/ \E p \in Procs, ok \in BOOLEAN : ProcExit(p, ok)
    \/ \E res \in SpliceResults : SpliceDone(res)
    \/ \E spawned \in BOOLEAN : ev3dev_Speaker_play_file(spawned)
    \/ \E D \in SUBSET ready, n \in StderrLens, readOk \in BOOLEAN, ub \in OverflowOutcomes :
          play_file_poll(D, n, readOk, ub)
    \/ \E e \in BOOLEAN, a \in BOOLEAN : ev3dev_Speaker_say(e, a)
    \/ \E D \in SUBSET ready, n \in StderrLens, readOk \in BOOLEAN, ub \in OverflowOutcomes :
          say_poll(D, n, readOk, ub)
    \/ PipeCallExit

SpecPipe == InitPipe /\ [][NextPipe]_vars

----------------------------------------------------------------------------
(* Properties of play_file and say, checked under SpecPipe *)

PipeCall == op.name \in {"play_file", "say"}
Left == pc \in {"returned", "raised", "crashed"}
WasInterrupted == caught # <<>>
Spawned(p) == proc[p].st # "none"
\* both waits (and for say the splice) were started
WaitsStarted == IF op.name = "say" THEN Spawned("espeak") /\ Spawned("aplay")
                ELSE Spawned("aplay")

\* C1: when play_file or say leaves after its asynchronous waits were
\* started, by returning or by raising, interrupted or not, no completion
\* notification of the call is outstanding and aplay_busy, espeak_busy and
\* splice_busy are all false.
C1_NothingOutstandingAtExit ==
    (PipeCall /\ Left) =>
        /\ outstanding = {}
        /\ ready = {}
        /\ ~aplay_busy
        /\ ~espeak_busy
        /\ ~splice_busy

\* an interrupted say has left, all three notifications delivered
C1_Witness ==
    /\ op.name = "say"
    /\ pc = "raised"
    /\ WasInterrupted
    /\ WaitsStarted
    /\ splice.st = "done"
    /\ outstanding = {}

\* C2: a call whose wait loop caught an interruption, at any poll and
\* whatever the processes report afterwards, ends by raising that kind of
\* exception, never a playback failure and never a normal return.
C2_InterruptionWins ==
    (PipeCall /\ Left /\ WasInterrupted) =>
        /\ pc = "raised"
        /\ err.kind = "Interrupted"

\* play_file was interrupted, aplay then reported failure, and the caller
\* sees the interruption
C2_Witness ==
    /\ op.name = "play_file"
    /\ pc = "raised"
    /\ WasInterrupted
    /\ ~proc["aplay"].ok
    /\ ~aplay_result
    /\ err.kind = "Interrupted"

\* C3: from the step in which the wait loop catches an interruption on, a
\* forced termination has been issued to every process of the call (so
\* before the next poll), and when the interrupted call leaves none of its
\* processes is still running.
C3_InterruptKillsAll ==
    (PipeCall /\ WasInterrupted) =>
        /\ \A p \in Procs : Spawned(p) => proc[p].killed
        /\ Left => \A p \in Procs : proc[p].st # "running"

\* say was interrupted with espeak and aplay both still running
C3_Witness ==
    /\ op.name = "say"
    /\ pc = "say_wait"
    /\ WasInterrupted
    /\ \A p \in Procs : proc[p].st = "running" /\ proc[p].killed

\* C4: no process handle is ever released twice or without having been
\* spawned, and when a call has returned or raised every handle it spawned
\* has been released exactly once.
C4_HandlesReleasedOnce ==
    PipeCall =>
        /\ \A p \in Procs : unrefs[p] <= (IF Spawned(p) THEN 1 ELSE 0)
        /\ Exited => \A p \in Procs : Spawned(p) => unrefs[p] = 1

\* an interrupted say has released both handles
C4_Witness ==
    /\ op.name = "say"
    /\ pc = "raised"
    /\ WasInterrupted
    /\ \A p \in Procs : Spawned(p) /\ unrefs[p] = 1

\* C6: when say, not interrupted, has returned or raised after its waits:
\* if aplay failed the error is the one built from aplay (also when espeak
\* failed too); if aplay succeeded and espeak failed it is the one built
\* from espeak; say returns only if both succeeded.
C6_AplayCheckedFirst ==
    (op.name = "say" /\ Exited /\ WaitsStarted /\ ~WasInterrupted) =>
        IF ~proc["aplay"].ok
        THEN /\ pc = "raised"
             /\ err.kind = "RuntimeError"
             /\ err.msg = "Saying text failed"
             /\ err.proc = "aplay"
             /\ rd.p = "aplay"
        ELSE IF ~proc["espeak"].ok
        THEN /\ pc = "raised"
             /\ err.kind = "RuntimeError"
             /\ err.msg = "Saying text failed"
             /\ err.proc = "espeak"
             /\ rd.p = "espeak"
        ELSE /\ pc = "returned"
             /\ err = NoErr

\* both processes failed and the error is aplay's
C6_Witness ==
    /\ op.name = "say"
    /\ pc = "raised"
    /\ ~WasInterrupted
    /\ ~proc["aplay"].ok
    /\ ~proc["espeak"].ok
    /\ proc["espeak"].st = "exited"
    /\ err.proc = "aplay"

\* C7: when play_file, not interrupted, has left its wait loop: if aplay
\* succeeded it returns with no error; if aplay failed it raises "Playing
\* file failed" with the stderr text read (up to the size of the buffer)
\* when the read succeeded and gave text, else with the message of the wait
\* error.
C7_PlayFileDiagnostic ==
    (op.name = "play_file" /\ Left /\ WaitsStarted /\ ~WasInterrupted) =>
        IF proc["aplay"].ok
        THEN pc = "returned" /\ err = NoErr
        ELSE /\ pc = "raised"
             /\ err.kind = "RuntimeError"
             /\ err.msg = "Playing file failed"
             /\ err.diag = IF rd.ok /\ rd.n > 0
                           THEN [src |-> "stderr", len |-> Min(rd.n, StderrBufSize)]
                           ELSE [src |-> "wait-error", len |-> 0]

----------------------------------------------------------------------------
(* Properties of beep and play_notes, checked under SpecTone *)

LastEvent == log[Len(log)]

\* the event at j is the tone command that starts a note
FirstOfNote(j) ==
    /\ log[j].k = "tone"
    /\ log[j].n >= 1
    /\ (j = 1 \/ log[j - 1].n # log[j].n)

\* the token ends in '_'
Tied(note) == Len(note) > 0 /\ note[Len(note)] = "_"

\* the length of a note whose fraction is not 0
NoteMs(note) == ParseNote(note, duration, [trap |-> TRUE, q |-> 0]).duration

\* C5: when play_notes has returned, and when it has raised (a ValueError of
\* a note, or an interruption of a wait, also after a tied note left the tone
\* on), the last tone command it issued is silence; the hardware is silent
\* unless that last write failed.
C5_SilencedAtExit ==
    (op.name = "play_notes" /\ Exited) =>
        /\ Len(log) > 0
        /\ LastEvent = Tone(0, 0)
        /\ (beep_ret # -1 => tone = 0)

\* a tied note was played, the next token did not parse, the tone was silenced
C5_Witness ==
    /\ op.name = "play_notes"
    /\ pc = "raised"
    /\ err.kind = "ValueError"
    /\ Len(log) = 3
    /\ log[1].k = "tone" /\ log[1].v > 0
    /\ log[2].k = "delay"
    /\ log[3] = Tone(0, 0)
    /\ tone = 0

\* C8: when beep has returned or raised after a tone-on write that succeeded
\* with a frequency that is not 0: for duration < 0 it has returned with that
\* one command issued, no wait and no silence command, and the tone sounds at
\* the frequency; for duration >= 0 the last command issued is silence, after
\* the wait or its interruption (and the hardware is silent unless that last
\* write failed).
C8_BeepLeavesToneOnIffNegative ==
    (op.name = "beep" /\ Exited /\ err.kind # "OSError" /\ op.frequency # 0) =>
        IF op.duration < 0
        THEN /\ pc = "returned"
             /\ log = <<Tone(op.frequency, 0)>>
             /\ tone = op.frequency
        ELSE /\ Len(log) = 3
             /\ log[2].k \in {"delay", "aborted"}
             /\ (log[2].k = "aborted") = (pc = "raised")
             /\ LastEvent = Tone(0, 0)
             /\ (beep_ret # -1 => tone = 0)

\* beep(500, -1) has returned and the tone sounds at 500 Hz
C8_Witness ==
    /\ op.name = "beep"
    /\ pc = "returned"
    /\ op.frequency = 500
    /\ op.duration = -1
    /\ tone = 500

\* C9: the tone command that starts a note following a tied note comes
\* right after the tied note's tone command and one wait of the tied note's
\* full length, with no silence command in between; and when play_notes
\* returns after a last note that is tied, that wait is followed by a
\* silence command.
C9_TiedNoGap ==
    (op.name = "play_notes") =>
        /\ \A j \in 1..Len(log) :
              (FirstOfNote(j) /\ log[j].n >= 2 /\ Tied(op.notes[log[j].n - 1])) =>
                  /\ j >= 3
                  /\ log[j - 1] = Delay(NoteMs(op.notes[log[j].n - 1]), log[j].n - 1)
                  /\ FirstOfNote(j - 2)
                  /\ log[j - 2].n = log[j].n - 1
        /\ (pc = "returned" /\ op.notes # <<>> /\ Tied(op.notes[Len(op.notes)])) =>
              /\ Len(log) >= 3
              /\ LastEvent = Tone(0, 0)
              /\ log[Len(log) - 1] =
                    Delay(NoteMs(op.notes[Len(op.notes)]), Len(op.notes))
              /\ FirstOfNote(Len(log) - 2)

\* "C4/4_" held for 500 ms at tempo 120, then the tone of the next note
C9_Witness ==
    /\ op.name = "play_notes"
    /\ op.tempo = 120
    /\ Len(log) >= 3
    /\ log[1] = Tone(523, 1)
    /\ log[2] = Delay(500, 1)
    /\ log[3].k = "tone" /\ log[3].n = 2 /\ log[3].v > 0

C4_4 == <<"C", "4", "/", "4">>

\* the four events of a note that started at j and was played to its end
PlayedAt(j) ==
    IF j + 3 <= Len(log) /\ log[j + 3].k = "delay" /\ log[j + 3].n = log[j].n
    THEN SubSeq(log, j, j + 3)
    ELSE <<>>

\* C10 as stated: at tempo 120 the whole note is 2000 ms and "C4/4" sounds
\* for 1750 ms and is then silent for 250 ms.
C10_AsStated ==
    (op.name = "play_notes" /\ op.tempo = 120) =>
        /\ duration = 2000
        /\ \A j \in 1..Len(log) :
              (FirstOfNote(j) /\ op.notes[log[j].n] = C4_4 /\ PlayedAt(j) # <<>>) =>
                  /\ log[j + 1] = Delay(1750, log[j].n)
                  /\ log[j + 2] = Tone(0, log[j].n)
                  /\ log[j + 3] = Delay(250, log[j].n)

\* C10 amended: at tempo 120 the whole note is 2000 ms and "C4/4", a quarter
\* of it (500 ms), sounds for 437 ms and is then silent for 62 ms.
C10_QuarterNoteTiming ==
    (op.name = "play_notes" /\ op.tempo = 120) =>
        /\ duration = 2000
        /\ \A j \in 1..Len(log) :
              (FirstOfNote(j) /\ op.notes[log[j].n] = C4_4 /\ PlayedAt(j) # <<>>) =>
                  /\ log[j + 1] = Delay(437, log[j].n)
                  /\ log[j + 2] = Tone(0, log[j].n)
                  /\ log[j + 3] = Delay(62, log[j].n)

\* "C4/4" was played to its end at tempo 120
C10_Witness ==
    /\ op.name = "play_notes"
    /\ op.tempo = 120
    /\ op.notes = <<C4_4>>
    /\ pc = "notes_next"
    /\ idx = 2
    /\ Len(log) = 4

----------------------------------------------------------------------------
(* Properties of ev3dev_Speaker_play_note, checked under SpecNote (and the  *)
(* two about the tone device under SpecTone)                                *)

\* note i of the melody has been handed to play_note
Scanned(i) ==
    \/ i < idx
    \/ i = idx /\ pc \in {"note_hold", "note_gap", "raised", "crashed"} /\ cur # NoNote

\* the tone commands play_note issued for note i
TonesOf(i) == { j \in 1..Len(log) : log[j].k = "tone" /\ log[j].n = i }

\* play_notes raised a ValueError at note i, which commanded no tone
Rejected(i) ==
    /\ i = idx
    /\ pc = "raised"
    /\ err.kind = "ValueError"
    /\ TonesOf(i) = {}

\* the scan of a note when a division by zero traps
Scan(note) == ParseNote(note, duration, [trap |-> TRUE, q |-> 0])

C4_4_Dot == <<"C", "4", "/", "4", ".">>

\* C11: for every non-tied note played to its end, the time the tone is held
\* plus the release gap equals the note's duration (the whole note divided
\* by the fraction, times 3/2 when dotted); "C4/4." at tempo 120 takes 750 ms.
C11_HoldPlusGapIsDuration ==
    (op.name = "play_notes") =>
        \A j \in 1..Len(log) :
            (/\ FirstOfNote(j)
             /\ PlayedAt(j) # <<>>
             /\ Scan(op.notes[log[j].n]).fraction # 0) =>
                /\ log[j + 1].v + log[j + 3].v = NoteMs(op.notes[log[j].n])
                /\ (op.notes[log[j].n] = C4_4_Dot /\ op.tempo = 120) =>
                       log[j + 1].v + log[j + 3].v = 750

DigitChars == <<"0", "1", "2", "3", "4", "5", "6", "7", "8", "9">>

\* the octave digit of a note that is not a rest
OctaveOf(note) == DigitAt(note, ParsePitch(note).pos)

\* the same note one octave higher
OctaveUp(note) ==
    [note EXCEPT ![ParsePitch(note).pos + 1] = DigitChars[OctaveOf(note) + 2]]

\* C12: the tone commanded for a note of pitch class p and octave n in [2,8]
\* is base(p) * 2^n truncated to an integer, and the same pitch one octave
\* higher has exactly twice the frequency.
C12_FrequencyIsBaseTimesPow2N ==
    (op.name = "play_notes") =>
        \A j \in 1..Len(log) :
            (FirstOfNote(j) /\ ParsePitch(op.notes[log[j].n]).freq # 0) =>
                LET note == op.notes[log[j].n]
                    p == ParsePitch(note)
                IN  /\ OctaveOf(note) \in 2..8
                    /\ log[j].v = CDiv(p.freq * Pow2(OctaveOf(note)), 100)
                    /\ OctaveOf(note) < 8 =>
                          ParseOctave(OctaveUp(note), p).freq
                              = 2 * ParseOctave(note, p).freq

\* the first character after the first '/' is '0'
ZeroFirst(note) ==
    \E k \in 1..(Len(note) - 1) :
        /\ note[k] = "/"
        /\ note[k + 1] = "0"
        /\ \A m \in 1..(k - 1) : note[m] # "/"

\* C13: every token whose first character after '/' is '0' fails with a
\* ValueError; the fraction of a note that is played is positive and no
\* duration is computed by dividing by zero.
C13_ZeroFractionRejected ==
    (op.name = "play_notes") =>
        /\ \A i \in 1..Len(op.notes) :
              (Scanned(i) /\ ZeroFirst(op.notes[i])) => Rejected(i)
        /\ (cur # NoNote /\ cur.err = "") => cur.fraction > 0
        /\ pc # "crashed"

\* the grammar of a note: pitch, octave 2-8 unless a rest, '/', a fraction
\* of one or two digits that does not start with 0, then '.' and '_', each
\* optional, in that order, and nothing more
GrammarHeads ==
    { <<"R">> }
    \cup { s \o <<DigitChars[o + 1]>> :
             s \in NoteSpellings \ { <<"C", "b">>, <<"E", "#">>, <<"B", "#">>, <<"F", "b">> },
             o \in 2..8 }
GrammarFractions ==
    { <<DigitChars[a + 1]>> : a \in 1..9 }
    \cup { <<DigitChars[a + 1], DigitChars[b + 1]>> : a \in 1..9, b \in 0..9 }
GrammarBodies ==
    { <<"/">> \o f \o d \o t :
        f \in GrammarFractions, d \in { <<>>, <<".">> }, t \in { <<>>, <<"_">> } }
WellFormed(note) ==
    \E k \in 0..Len(note) :
        /\ SubSeq(note, 1, k) \in GrammarHeads
        /\ SubSeq(note, k + 1, Len(note)) \in GrammarBodies

\* C14: every token that is not a note of the grammar, one with characters
\* left over after a complete note included, fails with a ValueError and
\* commands no tone (stated here for the tokens whose fraction does not
\* start with '0').
C14_MalformedRejected ==
    (op.name = "play_notes") =>
        \A i \in 1..Len(op.notes) :
            (Scanned(i) /\ ~WellFormed(op.notes[i]) /\ ~ZeroFirst(op.notes[i])) =>
                Rejected(i)

\* C15: with the tone device not open (beep_fd = -1), beep and play_notes
\* never end with an OSError, and leave the tone silent.
C15_MissingDeviceIsSilentNoOp ==
    (beep_fd = -1 /\ op.name \in {"beep", "play_notes"} /\ Exited) =>
        /\ err.kind # "OSError"
        /\ tone = 0

\* the other spelling of a pitch that has two
Twin(note) ==
    LET sp == <<CharAt(note, 0), CharAt(note, 1)>>
        tw == CASE sp = <<"C", "#">> -> <<"D", "b">>
                [] sp = <<"D", "b">> -> <<"C", "#">>
                [] sp = <<"D", "#">> -> <<"E", "b">>
                [] sp = <<"E", "b">> -> <<"D", "#">>
                [] sp = <<"F", "#">> -> <<"G", "b">>
                [] sp = <<"G", "b">> -> <<"F", "#">>
                [] sp = <<"G", "#">> -> <<"A", "b">>
                [] sp = <<"A", "b">> -> <<"G", "#">>
                [] sp = <<"A", "#">> -> <<"B", "b">>
                [] sp = <<"B", "b">> -> <<"A", "#">>
                [] OTHER -> <<>>
    IN  IF tw = <<>> THEN <<>> ELSE tw \o SubSeq(note, 3, Len(note))

\* the token starts with Cb, E#, B# or Fb
BadSpelling(note) ==
    <<CharAt(note, 0), CharAt(note, 1)>>
        \in { <<"C", "b">>, <<"E", "#">>, <<"B", "#">>, <<"F", "b">> }

\* the scan of the pitch and the octave of a token: [err, freq (1/100 Hz), pos]
Pitched(note) ==
    LET p == ParsePitch(note)
    IN  IF p.err # "" THEN p ELSE ParseOctave(note, p)

\* C16: a token spelled with one name of an enharmonic pair is scanned as
\* the token spelled with the other name is, for every octave and fraction:
\* pitch and octave are both accepted or both refused with the same
\* message, and the tone commanded is the frequency of the other spelling; a token that starts with Cb, E#, B# or Fb fails with
\* a ValueError and commands no tone.
C16_EnharmonicsEqual ==
    (op.name = "play_notes") =>
        \A i \in 1..Len(op.notes) :
            Scanned(i) =>
                LET note == op.notes[i]
                IN  /\ BadSpelling(note) => Rejected(i)
                    /\ Twin(note) # <<>> =>
                          /\ Pitched(note).err = Pitched(Twin(note)).err
                          /\ Pitched(note).freq = Pitched(Twin(note)).freq
                          /\ \A j \in TonesOf(i) :
                                FirstOfNote(j) =>
                                    log[j].v = CDiv(Pitched(Twin(note)).freq, 100)

\* "Db4/4" was played at 554 Hz, the frequency of "C#4/4"
C16_Witness ==
    /\ op.name = "play_notes"
    /\ op.notes = << <<"D", "b", "4", "/", "4">> >>
    /\ pc = "returned"
    /\ Len(log) = 5
    /\ log[1] = Tone(554, 1)
    /\ CDiv(Pitched(<<"C", "#", "4", "/", "4">>).freq, 100) = 554

\* C20: while play_notes, with the tone device open, is in a wait of a note,
\* the tone write it made just before the wait did not fail: a failed write
\* ends play_notes with an OSError.
C20_WriteFailureStopsPlayNotes ==
    (op.name = "play_notes" /\ beep_fd # -1 /\ pc \in {"note_hold", "note_gap"}) =>
        beep_ret # -1

----------------------------------------------------------------------------
(* More properties of play_file and say, checked under SpecPipe *)

\* C17: the interruption a call raises again after its wait loop is the
\* first one the loop caught, also when it caught more at later polls.
C17_ReraisesOriginal ==
    (PipeCall /\ pc = "raised" /\ WasInterrupted) =>
        /\ err.kind = "Interrupted"
        /\ err.id = caught[1]

\* the completions whose callbacks have run in the call
Delivered == UNION { order[k] : k \in 1..Len(order) }

\* C18: in whatever order the callbacks of espeak's exit, aplay's exit and
\* the splice run, each runs once, say stays in its wait loop until the
\* third has run, and what say then reports is decided by the results of
\* the two processes alone: aplay's failure, else espeak's, else success.
C18_AllOrdersTolerated ==
    (op.name = "say" /\ WaitsStarted) =>
        /\ \A k1, k2 \in 1..Len(order) : k1 # k2 => order[k1] \cap order[k2] = {}
        /\ Delivered # Asyncs => pc = "say_wait"
        /\ (Exited /\ ~WasInterrupted) =>
              /\ Delivered = Asyncs
              /\ (pc = "returned") = (proc["aplay"].ok /\ proc["espeak"].ok)
              /\ pc = "raised" =>
                    err.proc = (IF ~proc["aplay"].ok THEN "aplay" ELSE "espeak")

\* aplay failed first, the splice ended next, espeak exited last and
\* successfully: say raised aplay's failure after the third callback
C18_Witness ==
    /\ op.name = "say"
    /\ pc = "raised"
    /\ ~WasInterrupted
    /\ order = << {"aplay"}, {"splice"}, {"espeak"} >>
    /\ ~proc["aplay"].ok
    /\ proc["espeak"].ok
    /\ err.proc = "aplay"

\* C19: within one call each result cell is written at most once, by its
\* callback; a cell the caller reads after its wait loop has its busy flag
\* cleared and was written in this call, and the value read is the result of
\* this call's process; a call that was not interrupted does read
\* aplay_result.
C19_ResultCellsReadAfterWrite ==
    PipeCall =>
        /\ \A c \in Asyncs : writes[c] <= 1
        /\ \A c \in DOMAIN reads :
              /\ ~reads[c].busy
              /\ reads[c].written = 1
              /\ reads[c].value = proc[c].ok
        /\ (Exited /\ WaitsStarted /\ ~WasInterrupted) => "aplay" \in DOMAIN reads

\* play_file read aplay_result, written FALSE in this call, on a speaker
\* whose espeak_result an earlier say had left TRUE
C19_Witness ==
    /\ op.name = "play_file"
    /\ pc = "raised"
    /\ ~WasInterrupted
    /\ DOMAIN reads = {"aplay"}
    /\ reads["aplay"] = [busy |-> FALSE, value |-> FALSE, written |-> 1]
    /\ espeak_result

\* C21: when play_file or say has read the stderr of a failed process, the
\* NUL it wrote at index bytes_read, if it wrote one, is inside the buffer
\* (index at most 4095), however much the process wrote to stderr.
C21_NulWriteInsideBuffer ==
    (PipeCall /\ rd # NoRead) =>
        /\ rd.nul <= StderrBufSize - 1
        /\ (rd.ok /\ rd.n > 0) => rd.nul = Min(rd.n, StderrBufSize - 1)

=============================================================================
